---- MODULE Spec2Model ----
(***************************************************************************)
(* Model of the Diagnyx API Management Service (src/main.py).              *)
(*                                                                         *)
(* Every handler is an `async def` without an await, so a request is       *)
(* handled atomically: one action per route.  A handler is a pure operator *)
(* of its request input and of the values it obtains from its environment  *)
(* while it runs: the wall clock reads (time.time / time.strftime), the    *)
(* identifiers uuid.uuid4 returns and the outcome of the database probe.   *)
(* The clock is counted in whole seconds; response_time is in tenths of a  *)
(* second.                                                                 *)
(***************************************************************************)
EXTENDS Integers, Sequences, FiniteSets, TLC

VARIABLES start_time, now, request, env, response, conn

vars == <<start_time, now, request, env, response, conn>>

(* ---- bounds ---- *)
MaxClock == 2
MaxStart == 1

(* ---- values ---- *)
None == "None"
NoBody == <<>>

\* what uuid.uuid4() may return, as str()
UUIDs == {"uuid-a", "uuid-b"}

\* path parameters handed to the handlers
PathIds == {"", " ", "api-1"}

\* what psycopg2 may do during one probe
DbOutcomes == {"unreachable", "cursor_fails", "query_fails", "ok"}

Restrict(f, S) == [k \in S |-> f[k]]

(* ---- time.strftime("%Y-%m-%d %H:%M:%S") of the clock value t (UTC, t    *)
(*      within January 1970): year, month, day, hour, minute, second ----   *)
strftime(t) ==
    <<1970, 1, 1 + (t \div 86400), (t \div 3600) % 24, (t \div 60) % 60, t % 60>>

\* the clock values n consecutive reads see when the second changes after
\* the k-th read
ClockReads(n, k) == [i \in 1..n |-> IF i <= k THEN now ELSE now + 1]

(* ---- request models ---- *)
ApiRegistrationRequestRequired ==
    {"name", "description", "base_url", "version", "owner_id"}

ApiRegistrationRequestValid(body) ==
    ApiRegistrationRequestRequired \subseteq DOMAIN body

ApiRegistrationRequest(body) ==
    [name |-> body["name"],
     description |-> body["description"],
     base_url |-> body["base_url"],
     version |-> body["version"],
     owner_id |-> body["owner_id"],
     documentation_url |->
        IF "documentation_url" \in DOMAIN body THEN body["documentation_url"] ELSE None,
     tags |-> IF "tags" \in DOMAIN body THEN body["tags"] ELSE <<>>]

ApiResponse(api_id, name, description, base_url, version, owner_id, documentation_url, tags, created_at, updated_at) ==
    [api_id |-> api_id, name |-> name, description |-> description,
     base_url |-> base_url, version |-> version, owner_id |-> owner_id,
     documentation_url |-> documentation_url, tags |-> tags,
     created_at |-> created_at, updated_at |-> updated_at]

HTTPException(status_code, detail) ==
    [code |-> status_code, body |-> [detail |-> detail]]

Ok(status_code, body) == [code |-> status_code, body |-> body]

ValidationError == HTTPException(422, "validation error")

(* ---- handlers ---- *)
root ==
    Ok(200, [service |-> "API Management Service", status |-> "running",
             version |-> "1.0.0"])

\* register_api that forgets to pass the request's tags on
register_api_default_tags(req, uuids, clock) ==
    LET api_id == uuids[1]
        current_time == strftime(clock[1])
    IN Ok(200, ApiResponse(api_id, req.name, req.description, req.base_url,
                           req.version, req.owner_id, req.documentation_url,
                           <<>>, current_time, current_time))

register_api(req, uuids, clock) ==
    LET api_id == uuids[1]
        current_time == strftime(clock[1])
    IN Ok(200, ApiResponse(api_id, req.name, req.description, req.base_url,
                           req.version, req.owner_id, req.documentation_url,
                           req.tags, current_time, current_time))

\* get_api that answers with the sample descriptor's own identifier
get_api_sample_id(api_id, clock) ==
    IF api_id = ""
    THEN HTTPException(404, "API not found")
    ELSE Ok(200, ApiResponse("api-123", "Sample API", "This is a sample API",
                             "https://api.example.com", "1.0.0", "user-123",
                             "https://docs.example.com", <<"sample", "example">>,
                             strftime(clock[1]), strftime(clock[2])))

get_api(api_id, clock) ==
    IF api_id = ""
    THEN HTTPException(404, "API not found")
    ELSE Ok(200, ApiResponse(api_id, "Sample API", "This is a sample API",
                             "https://api.example.com", "1.0.0", "user-123",
                             "https://docs.example.com", <<"sample", "example">>,
                             strftime(clock[1]), strftime(clock[2])))

\* the descriptor list_apis builds for i; it draws one identifier, then reads
\* the clock twice
list_apis_item(i, uuids, clock) ==
    ApiResponse(uuids[i], <<"Sample API ", i>>, <<"This is a sample API ", i>>,
                <<"https://api", i, ".example.com">>, "1.0.0", "user-123",
                <<"https://docs", i, ".example.com">>, <<"sample", "example">>,
                strftime(clock[2 * i - 1]), strftime(clock[2 * i]))

\* range(1, 3)
list_apis_range_short == 1..2

\* range(1, 4)
list_apis_range == 1..3

list_apis(uuids, clock) ==
    LET apis == [i \in list_apis_range |-> list_apis_item(i, uuids, clock)]
    IN Ok(200, [data |-> apis, total |-> Len(apis)])

\* update_api that keeps the stored sample's owner instead of the request's
update_api_keeps_owner(api_id, req, clock) ==
    IF api_id = ""
    THEN HTTPException(404, "API not found")
    ELSE Ok(200, ApiResponse(api_id, req.name, req.description, req.base_url,
                             req.version, "user-123", req.documentation_url,
                             req.tags, strftime(clock[1]), strftime(clock[2])))

update_api(api_id, req, clock) ==
    IF api_id = ""
    THEN HTTPException(404, "API not found")
    ELSE Ok(200, ApiResponse(api_id, req.name, req.description, req.base_url,
                             req.version, req.owner_id, req.documentation_url,
                             req.tags, strftime(clock[1]), strftime(clock[2])))

\* delete_api without the existence check
delete_api_unchecked(api_id) ==
    Ok(200, [message |-> <<"API ", api_id, " deleted successfully">>])

delete_api(api_id) ==
    IF api_id = ""
    THEN HTTPException(404, "API not found")
    ELSE Ok(200, [message |-> <<"API ", api_id, " deleted successfully">>])

\* health_check_item that degrades every second record instead of every third
health_check_item_every_second(i, api_id, uuids, clock) ==
    [check_id |-> uuids[i + 1],
     api_id |-> api_id,
     status |-> IF i % 2 # 0 THEN "healthy" ELSE "degraded",
     response_time |-> 5 + i,
     timestamp |-> clock[i + 1] - (i * 3600),
     details |-> [status_code |-> IF i % 2 # 0 THEN 200 ELSE 500,
                  response_size |-> 1024,
                  endpoint |-> "/api/v1/resource"]]

\* the record get_api_health_checks builds for i in range(5); the sequence
\* position of i is i + 1
health_check_item(i, api_id, uuids, clock) ==
    [check_id |-> uuids[i + 1],
     api_id |-> api_id,
     status |-> IF i % 3 # 0 THEN "healthy" ELSE "degraded",
     response_time |-> 5 + i,
     timestamp |-> clock[i + 1] - (i * 3600),
     details |-> [status_code |-> IF i % 3 # 0 THEN 200 ELSE 500,
                  response_size |-> 1024,
                  endpoint |-> "/api/v1/resource"]]

get_api_health_checks(api_id, uuids, clock) ==
    LET health_checks == [p \in 1..5 |-> health_check_item(p - 1, api_id, uuids, clock)]
    IN Ok(200, [data |-> health_checks, total |-> Len(health_checks)])

(* ---- marketing forms ---- *)
\* an e-mail address is a sequence of characters; EmailStr accepts it when it
\* has exactly one "@", a non-empty local part and a domain of non-empty
\* labels separated by at least one "."
Count(s, c) == Cardinality({i \in 1..Len(s) : s[i] = c})

EmailStr(s) ==
    /\ Count(s, "@") = 1
    /\ LET at == CHOOSE i \in 1..Len(s) : s[i] = "@"
       IN /\ at > 1
          /\ at < Len(s)
          /\ s[1] # "." /\ s[at - 1] # "."
          /\ \E i \in (at + 1)..Len(s) : s[i] = "."
          /\ s[at + 1] # "." /\ s[Len(s)] # "."
          /\ \A i \in (at + 1)..(Len(s) - 1) : ~(s[i] = "." /\ s[i + 1] = ".")

ContactSubmissionValid(body) ==
    /\ {"email", "name", "subject", "message"} \subseteq DOMAIN body
    /\ EmailStr(body["email"])

\* NewsletterSubscription with email declared as a plain str
NewsletterSubscriptionValid_plain_str(body) ==
    {"email"} \subseteq DOMAIN body

NewsletterSubscriptionValid(body) ==
    /\ {"email"} \subseteq DOMAIN body
    /\ EmailStr(body["email"])

TrialWaitlistEntryValid(body) ==
    /\ {"email", "full_name"} \subseteq DOMAIN body
    /\ EmailStr(body["email"])

submit_contact_form(uuids) ==
    Ok(201, [message |-> "Contact form submitted successfully",
             submission_id |-> uuids[1]])

subscribe_newsletter(uuids) ==
    Ok(201, [message |-> "Subscribed to newsletter successfully",
             subscription_id |-> uuids[1]])

join_trial_waitlist(uuids) ==
    Ok(201, [message |-> "Added to trial waitlist successfully",
             waitlist_id |-> uuids[1]])

(* ---- database probes ---- *)
\* a handler's use of psycopg2: connect() calls made, whether one returned a
\* connection, and whether conn.close() was called on it
NoConn == [attempts |-> 0, opened |-> FALSE, closed |-> FALSE]

\* str(e) of the exception the probe raises
DbError(db) ==
    CASE db = "unreachable" -> "connection refused"
      [] db = "cursor_fails" -> "cursor creation failed"
      [] db = "query_fails" -> "SELECT 1 failed"
      [] OTHER -> None

\* health_check without the try/except around the probe
health_check_uncaught(db, clock) ==
    LET raised == (db = "unreachable")
    IN [response |->
            IF raised
            THEN HTTPException(500, "Internal Server Error")
            ELSE Ok(200, [status |-> "UP", version |-> "1.0.0",
                          uptime |-> clock[1] - start_time,
                          service |-> "api-management-service",
                          database |-> "UP"]),
        conn |-> [attempts |-> 1, opened |-> ~raised, closed |-> ~raised]]

\* try: conn = connect(...); conn.close()  except Exception: db_status = "DOWN"
health_check(db, clock) ==
    LET raised == (db = "unreachable")
        db_status == IF raised THEN "DOWN" ELSE "UP"
    IN [response |-> Ok(200, [status |-> "UP", version |-> "1.0.0",
                              uptime |-> clock[1] - start_time,
                              service |-> "api-management-service",
                              database |-> db_status]),
        conn |-> [attempts |-> 1, opened |-> ~raised, closed |-> ~raised]]

\* service_status whose except block forgets status = "FAILURE"
service_status_keeps_success(db, clock) ==
    LET raised == (db # "ok")
        connected == (db # "unreachable")
    IN [response |->
            Ok(200, [service |-> "api-management-service",
                     timestamp |-> strftime(clock[1]),
                     database |-> IF raised THEN "DOWN" ELSE "UP",
                     status |-> "SUCCESS",
                     message |->
                        IF raised
                        THEN <<"API Management Service is degraded - database connectivity issue: ",
                               DbError(db)>>
                        ELSE <<"API Management Service is operational with database connectivity">>]),
        conn |-> [attempts |-> 1, opened |-> connected, closed |-> ~raised]]

\* try: conn = connect(...); cursor = conn.cursor(); cursor.execute("SELECT 1");
\*      cursor.close(); conn.close()
\* except Exception as e: db_status, status, message = "DOWN", "FAILURE", ...
service_status(db, clock) ==
    LET raised == (db # "ok")
        connected == (db # "unreachable")
    IN [response |->
            Ok(200, [service |-> "api-management-service",
                     timestamp |-> strftime(clock[1]),
                     database |-> IF raised THEN "DOWN" ELSE "UP",
                     status |-> IF raised THEN "FAILURE" ELSE "SUCCESS",
                     message |->
                        IF raised
                        THEN <<"API Management Service is degraded - database connectivity issue: ",
                               DbError(db)>>
                        ELSE <<"API Management Service is operational with database connectivity">>]),
        \* conn.close() is the last statement of the try block: it runs only
        \* when nothing before it raised
        conn |-> [attempts |-> 1, opened |-> connected, closed |-> ~raised]]

(* ---- request inputs ---- *)
RegFields == ApiRegistrationRequestRequired \cup {"documentation_url", "tags"}

RegBase ==
    [name |-> "Orders API", description |-> "Order management",
     base_url |-> "https://orders.example.com", version |-> "2.1.0",
     owner_id |-> "user-7", documentation_url |-> "https://docs.orders.example.com",
     tags |-> <<"orders", "beta">>]

RegAlt ==
    [name |-> "", description |-> "Billing", base_url |-> "http://billing",
     version |-> "0.1", owner_id |-> "user-9", documentation_url |-> None,
     tags |-> <<>>]

\* the two bodies, each with one field taken from the other, and each with
\* one field left out
RegistrationBodies ==
    {RegBase, RegAlt}
    \cup {[RegBase EXCEPT ![f] = RegAlt[f]] : f \in RegFields}
    \cup {Restrict(RegBase, RegFields \ {f}) : f \in RegFields}
    \cup {Restrict(RegAlt, RegFields \ {f}) : f \in {"documentation_url", "tags"}}

Emails ==
    {<<"u", "@", "d", ".", "c">>,
     <<"a", ".", "b", "@", "d", ".", "c", ".", "e">>,
     <<"n", "o", "t", "-", "a", "n", "-", "e", "m", "a", "i", "l">>,
     <<"u", "@">>,
     <<"@", "d", ".", "c">>,
     <<"u", "@", "d">>,
     <<"u", "@", "d", ".">>,
     <<"u", "@", "@", "d", ".", "c">>,
     <<>>}

ContactFields == {"email", "name", "subject", "message", "company"}

ContactBase ==
    [email |-> <<"u", "@", "d", ".", "c">>, name |-> "Ada", subject |-> "Pricing",
     message |-> "Hello", company |-> "Acme"]

ContactBodies ==
    {[ContactBase EXCEPT !["email"] = e] : e \in Emails}
    \cup {Restrict(ContactBase, ContactFields \ {f}) : f \in ContactFields}
    \cup {Restrict([ContactBase EXCEPT !["email"] = <<"u", "@">>], ContactFields \ {f}) :
             f \in ContactFields \ {"email"}}

NewsletterBodies ==
    {[email |-> e] : e \in Emails} \cup {NoBody}

TrialFields == {"email", "full_name", "company", "selected_plan"}

TrialBase ==
    [email |-> <<"u", "@", "d", ".", "c">>, full_name |-> "Ada L",
     company |-> "Acme", selected_plan |-> "pro"]

TrialBodies ==
    {[TrialBase EXCEPT !["email"] = e] : e \in Emails}
    \cup {Restrict(TrialBase, TrialFields \ {f}) : f \in TrialFields}
    \cup {Restrict(TrialBase, {"email", "full_name"}), Restrict(TrialBase, {"company"})}

(* ---- the routes ---- *)
Req(handler, api_id, body) == [handler |-> handler, api_id |-> api_id, body |-> body]

Env(clock, uuids, db) == [clock |-> clock, uuids |-> uuids, db |-> db]

\* the second may change after the k-th of n clock reads only while the
\* modelled clock has room
TickOk(n, k) == k = n \/ now < MaxClock

Init ==
    /\ start_time \in 0..MaxStart
    /\ now = start_time
    /\ request = Req("startup", None, NoBody)
    /\ env = Env(<<>>, <<>>, None)
    /\ response = Ok(0, [none |-> TRUE])
    /\ conn = NoConn

\* time passes between requests
Tick ==
    /\ now < MaxClock
    /\ now' = now + 1
    /\ UNCHANGED <<start_time, request, env, response, conn>>

GetRoot ==
    /\ request' = Req("root", None, NoBody)
    /\ env' = Env(<<>>, <<>>, None)
    /\ response' = root
    /\ conn' = NoConn
    /\ UNCHANGED <<start_time, now>>

\* a /health route that restarts the uptime clock on every call
GetHealth_resets_start_time ==
    \E db \in DbOutcomes :
        LET clock == <<now>>
            r == health_check(db, clock)
        IN /\ request' = Req("health_check", None, NoBody)
           /\ env' = Env(clock, <<>>, db)
           /\ response' = r.response
           /\ conn' = r.conn
           /\ start_time' = now
           /\ UNCHANGED now

GetHealth ==
    \E db \in DbOutcomes :
        LET clock == <<now>>
            r == health_check(db, clock)
        IN /\ request' = Req("health_check", None, NoBody)
           /\ env' = Env(clock, <<>>, db)
           /\ response' = r.response
           /\ conn' = r.conn
           /\ UNCHANGED <<start_time, now>>

GetServiceStatus ==
    \E db \in DbOutcomes :
        LET clock == <<now>>
            r == service_status(db, clock)
        IN /\ request' = Req("service_status", None, NoBody)
           /\ env' = Env(clock, <<>>, db)
           /\ response' = r.response
           /\ conn' = r.conn
           /\ UNCHANGED <<start_time, now>>

PostApis ==
    \E body \in RegistrationBodies, u \in UUIDs :
        LET clock == <<now>>
            uuids == <<u>>
        IN /\ request' = Req("register_api", None, body)
           /\ env' = Env(clock, uuids, None)
           /\ response' = IF ApiRegistrationRequestValid(body)
                          THEN register_api(ApiRegistrationRequest(body), uuids, clock)
                          ELSE ValidationError
           /\ conn' = NoConn
           /\ UNCHANGED <<start_time, now>>

GetApi ==
    \E api_id \in PathIds, k \in 1..2 :
        LET clock == ClockReads(2, k)
        IN /\ TickOk(2, k)
           /\ request' = Req("get_api", api_id, NoBody)
           /\ env' = Env(clock, <<>>, None)
           /\ response' = get_api(api_id, clock)
           /\ conn' = NoConn
           /\ now' = clock[2]
           /\ UNCHANGED start_time

ListApis ==
    \E uuids \in [1..3 -> UUIDs], k \in 1..6 :
        LET clock == ClockReads(6, k)
        IN /\ TickOk(6, k)
           /\ request' = Req("list_apis", None, NoBody)
           /\ env' = Env(clock, uuids, None)
           /\ response' = list_apis(uuids, clock)
           /\ conn' = NoConn
           /\ now' = clock[6]
           /\ UNCHANGED start_time

PutApi ==
    \E api_id \in PathIds, body \in RegistrationBodies, k \in 1..2 :
        LET clock == ClockReads(2, k)
        IN /\ TickOk(2, k)
           /\ request' = Req("update_api", api_id, body)
           /\ env' = Env(clock, <<>>, None)
           /\ response' = IF ApiRegistrationRequestValid(body)
                          THEN update_api(api_id, ApiRegistrationRequest(body), clock)
                          ELSE ValidationError
           /\ conn' = NoConn
           /\ now' = clock[2]
           /\ UNCHANGED start_time

DeleteApi ==
    \E api_id \in PathIds :
        /\ request' = Req("delete_api", api_id, NoBody)
        /\ env' = Env(<<>>, <<>>, None)
        /\ response' = delete_api(api_id)
        /\ conn' = NoConn
        /\ UNCHANGED <<start_time, now>>

GetApiHealthChecks ==
    \E api_id \in PathIds, uuids \in [1..5 -> UUIDs], k \in 1..5 :
        LET clock == ClockReads(5, k)
        IN /\ TickOk(5, k)
           /\ request' = Req("get_api_health_checks", api_id, NoBody)
           /\ env' = Env(clock, uuids, None)
           /\ response' = get_api_health_checks(api_id, uuids, clock)
           /\ conn' = NoConn
           /\ now' = clock[5]
           /\ UNCHANGED start_time

PostContactSubmissions ==
    \E body \in ContactBodies, u \in UUIDs :
        /\ request' = Req("submit_contact_form", None, body)
        /\ env' = Env(<<>>, <<u>>, None)
        /\ response' = IF ContactSubmissionValid(body)
                       THEN submit_contact_form(<<u>>)
                       ELSE ValidationError
        /\ conn' = NoConn
        /\ UNCHANGED <<start_time, now>>

PostNewsletterSubscriptions ==
    \E body \in NewsletterBodies, u \in UUIDs :
        /\ request' = Req("subscribe_newsletter", None, body)
        /\ env' = Env(<<>>, <<u>>, None)
        /\ response' = IF NewsletterSubscriptionValid(body)
                       THEN subscribe_newsletter(<<u>>)
                       ELSE ValidationError
        /\ conn' = NoConn
        /\ UNCHANGED <<start_time, now>>

PostTrialWaitlist ==
    \E body \in TrialBodies, u \in UUIDs :
        /\ request' = Req("join_trial_waitlist", None, body)
        /\ env' = Env(<<>>, <<u>>, None)
        /\ response' = IF TrialWaitlistEntryValid(body)
                       THEN join_trial_waitlist(<<u>>)
                       ELSE ValidationError
        /\ conn' = NoConn
        /\ UNCHANGED <<start_time, now>>

Next ==
    \/ Tick
    \/ GetRoot
    \/ GetHealth
    \/ GetServiceStatus
    \/ PostApis
    \/ GetApi
    \/ ListApis
    \/ PutApi
    \/ DeleteApi
    \/ GetApiHealthChecks
    \/ PostContactSubmissions
    \/ PostNewsletterSubscriptions
    \/ PostTrialWaitlist

Spec == Init /\ [][Next]_vars

(***************************************************************************)
(* The response the application gives to a request, as a function of the   *)
(* request and of what the handler obtained from its environment: FastAPI  *)
(* validates the body against the handler's request model, answers 422     *)
(* when that fails, and calls the handler otherwise.                       *)
(***************************************************************************)
app(req, e) ==
    CASE req.handler = "root" -> root
      [] req.handler = "health_check" -> health_check(e.db, e.clock).response
      [] req.handler = "service_status" -> service_status(e.db, e.clock).response
      [] req.handler = "register_api" ->
            IF ApiRegistrationRequestValid(req.body)
            THEN register_api(ApiRegistrationRequest(req.body), e.uuids, e.clock)
            ELSE ValidationError
      [] req.handler = "get_api" -> get_api(req.api_id, e.clock)
      [] req.handler = "list_apis" -> list_apis(e.uuids, e.clock)
      [] req.handler = "update_api" ->
            IF ApiRegistrationRequestValid(req.body)
            THEN update_api(req.api_id, ApiRegistrationRequest(req.body), e.clock)
            ELSE ValidationError
      [] req.handler = "delete_api" -> delete_api(req.api_id)
      [] req.handler = "get_api_health_checks" ->
            get_api_health_checks(req.api_id, e.uuids, e.clock)
      [] req.handler = "submit_contact_form" ->
            IF ContactSubmissionValid(req.body)
            THEN submit_contact_form(e.uuids) ELSE ValidationError
      [] req.handler = "subscribe_newsletter" ->
            IF NewsletterSubscriptionValid(req.body)
            THEN subscribe_newsletter(e.uuids) ELSE ValidationError
      [] req.handler = "join_trial_waitlist" ->
            IF TrialWaitlistEntryValid(req.body)
            THEN join_trial_waitlist(e.uuids) ELSE ValidationError

(* ======================= properties ======================= *)

\* the value a request model gives field f of body, default d when absent
Field(body, f, d) == IF f \in DOMAIN body THEN body[f] ELSE d

\* the handler named h was called: the request reached it with a body its
\* request model accepts
Called(h) ==
    /\ request.handler = h
    /\ response.code # 422

IsDescriptor(b) ==
    DOMAIN b = {"api_id", "name", "description", "base_url", "version", "owner_id",
                "documentation_url", "tags", "created_at", "updated_at"}

\* the descriptor b carries the registration fields of body
EchoesBody(b, body) ==
    /\ \A f \in ApiRegistrationRequestRequired : b[f] = body[f]
    /\ b.documentation_url = Field(body, "documentation_url", None)
    /\ b.tags = Field(body, "tags", <<>>)

\* C1: for every valid registration payload register_api returns a descriptor
\* whose name, description, base_url, version, owner_id, documentation_url and
\* tags equal the input's, whose api_id is the non-empty identifier just
\* generated, and whose created_at and updated_at are the same timestamp.
C1_RegisterEchoesPayload ==
    (request.handler = "register_api"
        /\ ApiRegistrationRequestRequired \subseteq DOMAIN request.body) =>
        /\ response.code = 200
        /\ IsDescriptor(response.body)
        /\ EchoesBody(response.body, request.body)
        /\ response.body.api_id = env.uuids[1]
        /\ response.body.api_id # ""
        /\ response.body.created_at = response.body.updated_at
        /\ response.body.created_at = strftime(env.clock[1])

C1_Witness ==
    /\ request.handler = "register_api"
    /\ response.code = 200
    /\ response.body.tags = <<"orders", "beta">>
    /\ response.body.documentation_url = None
    /\ response.body.api_id = "uuid-b"

\* C2: called with an empty identifier, get_api, update_api and delete_api
\* each answer 404 not-found; a request with an empty identifier never gets a
\* descriptor or a deletion confirmation.
C2_EmptyIdNotFound ==
    (request.handler \in {"get_api", "update_api", "delete_api"}
        /\ request.api_id = "") =>
        /\ response.code # 200
        /\ ~IsDescriptor(response.body)
        /\ "message" \notin DOMAIN response.body
        /\ Called(request.handler) =>
              /\ response.code = 404
              /\ response.body = [detail |-> "API not found"]

C2_Witness ==
    /\ request.handler = "delete_api"
    /\ request.api_id = ""
    /\ response.code = 404

\* C3: called with a non-empty identifier, get_api and update_api succeed
\* with a descriptor whose api_id is exactly that identifier; update_api's
\* descriptor carries the request body's fields.
C3_NonEmptyIdEchoed ==
    (request.handler \in {"get_api", "update_api"}
        /\ request.api_id # ""
        /\ Called(request.handler)) =>
        /\ response.code = 200
        /\ IsDescriptor(response.body)
        /\ response.body.api_id = request.api_id
        /\ request.handler = "update_api" => EchoesBody(response.body, request.body)

C3_Witness ==
    /\ request.handler = "update_api"
    /\ request.api_id = "api-1"
    /\ response.code = 200
    /\ response.body.owner_id = "user-9"
    /\ response.body.created_at # response.body.updated_at

\* C4: get_api_health_checks returns, for every identifier, exactly 5 records
\* with total = 5; records 0 and 3 are "degraded" with status_code 500,
\* records 1, 2 and 4 are "healthy" with status_code 200, and every record's
\* api_id is the path identifier.
C4_HealthChecksPattern ==
    request.handler = "get_api_health_checks" =>
        /\ response.code = 200
        /\ Len(response.body.data) = 5
        /\ response.body.total = 5
        /\ \A i \in {0, 3} :
              /\ response.body.data[i + 1].status = "degraded"
              /\ response.body.data[i + 1].details.status_code = 500
        /\ \A i \in {1, 2, 4} :
              /\ response.body.data[i + 1].status = "healthy"
              /\ response.body.data[i + 1].details.status_code = 200
        /\ \A p \in 1..5 : response.body.data[p].api_id = request.api_id

C4_Witness ==
    /\ request.handler = "get_api_health_checks"
    /\ request.api_id = ""
    /\ response.body.total = 5
    /\ response.body.data[4].status = "degraded"

\* C5: when the database is unreachable, /health and /service-status both
\* answer normally with database "DOWN"; /service-status also reports status
\* "FAILURE" and a message carrying the error.
C5_DbDownReported ==
    (request.handler \in {"health_check", "service_status"}
        /\ env.db = "unreachable") =>
        /\ response.code = 200
        /\ response.body.database = "DOWN"
        /\ request.handler = "service_status" =>
              /\ response.body.status = "FAILURE"
              /\ Len(response.body.message) = 2
              /\ response.body.message[2] = "connection refused"

C5_Witness ==
    /\ request.handler = "health_check"
    /\ env.db = "unreachable"
    /\ response.body.database = "DOWN"

\* the addresses of Emails that are well-formed
WellFormedEmails ==
    {<<"u", "@", "d", ".", "c">>,
     <<"a", ".", "b", "@", "d", ".", "c", ".", "e">>}

WellFormed(body, required) ==
    /\ required \subseteq DOMAIN body
    /\ body["email"] \in WellFormedEmails

MarketingRequired ==
    [submit_contact_form |-> {"email", "name", "subject", "message"},
     subscribe_newsletter |-> {"email"},
     join_trial_waitlist |-> {"email", "full_name"}]

MarketingIdField ==
    [submit_contact_form |-> "submission_id",
     subscribe_newsletter |-> "subscription_id",
     join_trial_waitlist |-> "waitlist_id"]

\* C6: each marketing endpoint answers 201 with its generated identifier
\* field exactly when the payload is well-formed; an invalid e-mail or a
\* missing required field gets the validation error.
C6_MarketingValidation ==
    request.handler \in DOMAIN MarketingRequired =>
        IF WellFormed(request.body, MarketingRequired[request.handler])
        THEN /\ response.code = 201
             /\ MarketingIdField[request.handler] \in DOMAIN response.body
             /\ response.body[MarketingIdField[request.handler]] = env.uuids[1]
             /\ env.uuids[1] # ""
        ELSE response = ValidationError

C6_Witness ==
    /\ request.handler = "subscribe_newsletter"
    /\ "email" \in DOMAIN request.body
    /\ request.body["email"] = <<"n", "o", "t", "-", "a", "n", "-", "e", "m", "a", "i", "l">>
    /\ response.code = 422

\* C7: list_apis always returns exactly 3 descriptors with total = 3.
C7_ListIsThree ==
    request.handler = "list_apis" =>
        /\ response.code = 200
        /\ Len(response.body.data) = 3
        /\ response.body.total = 3
        /\ \A p \in 1..3 : IsDescriptor(response.body.data[p])

C7_Witness ==
    /\ request.handler = "list_apis"
    /\ response.body.total = 3
    /\ response.body.data[1].api_id # response.body.data[3].api_id

\* C8: every database connectivity check makes exactly one connection
\* attempt, and a connection it opened is closed before the handler returns.
C8_ConnectionClosed ==
    request.handler \in {"health_check", "service_status"} =>
        /\ conn.attempts = 1
        /\ conn.opened => conn.closed

\* C9: no handler modifies start_time, and a response is determined by the
\* request and by the clock reads, identifiers and probe outcome its handler
\* obtained: it is the application's function of them, and a request that
\* follows one with the same input and the same environment values gets the
\* same response.
C9_Stateless ==
    [][/\ start_time' = start_time
       /\ request'.handler # "startup" => response' = app(request', env')
       /\ (request' = request /\ env' = env) => response' = response]_vars

C9_Witness ==
    /\ request.handler = "delete_api"
    /\ response.code = 200
    /\ now > start_time

\* C10: /service-status reports status "SUCCESS" exactly when database is
\* "UP" and "FAILURE" exactly when it is "DOWN", a failed probe on an open
\* connection counting as DOWN; /health always reports status "UP".
C10_StatusFollowsDatabase ==
    /\ request.handler = "service_status" =>
          /\ response.body.database \in {"UP", "DOWN"}
          /\ response.body.status \in {"SUCCESS", "FAILURE"}
          /\ response.body.status = "SUCCESS" <=> response.body.database = "UP"
          /\ response.body.status = "FAILURE" <=> response.body.database = "DOWN"
          /\ response.body.database = "UP" <=> env.db = "ok"
    /\ request.handler = "health_check" =>
          /\ response.code = 200
          /\ response.body.status = "UP"

C10_Witness ==
    /\ request.handler = "service_status"
    /\ env.db = "query_fails"
    /\ response.body.status = "FAILURE"
====
